---- MODULE Spec2Model ----
(***************************************************************************)
(* A model of the CEM-RL guided-evolution driver (ges.py) and of the       *)
(* parameter interchange of its networks (models.py, class RLNN).          *)
(*                                                                         *)
(*   SpecParams  RLNN.set_params / RLNN.get_params on small networks       *)
(*   SpecEval    one call of evaluate() with arbitrary arguments           *)
(*   Spec        the whole program: __main__, train, train_es, train_rl,   *)
(*               test and the evaluate() calls they make                   *)
(*   SpecGrad    the whole program, run also with an Actor class that has  *)
(*               the method actor_grad that train_es calls                 *)
(***************************************************************************)
EXTENDS Integers, Sequences, FiniteSets, TLC

VARIABLES
    \* ---- models.py: one RLNN instance and the vector handed to it
    net,            \* self.parameters(): the learnable tensors, declaration order
    params,         \* the argument of set_params
    net_before,     \* the tensors when the last operation was entered
    flat_before,    \* get_params() when the last operation was entered
    p_op,           \* last operation: "none", "set_params", "get_params", "round_trip"
    p_raised,       \* whether that operation raised
    p_out,          \* what that operation returned (a vector), <<>> if nothing
    \* ---- ges.py: the process
    args,           \* the parsed command line (mode, n_gen, n_episodes, ...)
    actor_grad_defined, \* whether the Actor class has a method named actor_grad
    actor_pkl,      \* whether <filename>/actor.pkl can be loaded
    env_rewards,    \* the rewards the environment can give for a step
    pc,             \* where the process is
    err,            \* the exception that ended it, "" if none
    memory,         \* the replay memory, oldest transition first
    env_t,          \* the environment: steps since its last reset
    \* ---- evaluate(): arguments, locals, results
    ev,             \* [random, noise, add_memory, n_episodes, ret_pc]
    ep,             \* episodes finished in this call
    score,          \* return of the running episode
    scores,         \* returns of the finished episodes
    steps,          \* steps counted by this call
    ret,            \* [f, steps]: what the last evaluate call returned
    \* ---- train_es(): locals;  es: the optimizer
    random,         \* the flag train hands to train_es
    member,         \* index of the population member under evaluation
    batch_steps,
    fitness,
    es_log,         \* what this call of train_es has done so far, in order
    \* ---- train(): locals;  agent and disk
    n,              \* generations completed
    total_steps,
    df,             \* the score log in memory
    log_pkl,        \* the score log on disk (log.pkl), <<>> before the first save
    saves,          \* number of agent.save calls
    critic_steps,   \* n_steps handed to agent.train_critic, summed
    steps_rl_f,     \* what the last train_rl returned
    \* ---- observers (not program state)
    env_steps,      \* env.step calls made by the process so far
    call_steps,     \* env.step calls made by the running evaluate call
    call_dones,     \* done flags those calls returned
    mem_entry,      \* the replay memory when the running evaluate call began
    mem_adds,       \* memory.add calls made by the running evaluate call
    noise_samples,  \* noise.sample calls that returned
    last_act,       \* the last action taken: how it was drawn, and when
    ran             \* the routines __main__ has dispatched to

pvars == <<net, params, net_before, flat_before, p_op, p_raised, p_out>>
world == <<args, actor_grad_defined, actor_pkl, env_rewards>>
evars == <<ev, ep, score, scores, steps, ret>>
esvars == <<random, member, batch_steps, fitness, es_log>>
tvars == <<n, total_steps, df, log_pkl, saves, critic_steps, steps_rl_f>>
ovars == <<env_steps, call_steps, call_dones, mem_entry, mem_adds, noise_samples, last_act, ran>>
gvars == <<pc, err, memory, env_t>>
dvars == <<world, gvars, evars, esvars, tvars, ovars>>
vars == <<pvars, dvars>>

(***************************************************************************)
(* Bounds of the model.                                                    *)
(***************************************************************************)
MaxDim == 2         \* layer widths range over 1..MaxDim
MaxExtra == 2       \* a vector is at most this much longer than the network
NumFill == 3        \* element values range over 0..NumFill-1

Min(a, b) == IF a < b THEN a ELSE b

(***************************************************************************)
(* Tensors.  A tensor is [size, data]: a 1-D tensor's data is a sequence   *)
(* of numbers, a 2-D tensor's data is a sequence of rows.                  *)
(***************************************************************************)
RECURSIVE Product(_)
Product(size) ==
    IF size = <<>> THEN 1 ELSE Head(size) * Product(Tail(size))

RECURSIVE ConcatAll(_)
ConcatAll(seqs) ==
    IF seqs = <<>> THEN <<>> ELSE Head(seqs) \o ConcatAll(Tail(seqs))

\* v.flatten(): the elements in row-major order
Flatten(t) ==
    IF Len(t.size) = 1 THEN t.data ELSE ConcatAll(t.data)

\* x.view(size) of a flat x whose length is the product of size
View(flat, size) ==
    IF Len(size) = 1
    THEN flat
    ELSE [r \in 1..size[1] |-> SubSeq(flat, (r - 1) * size[2] + 1, r * size[2])]

\* params[lo:hi] on a numpy array: the bounds are clipped to the array
Slice(a, lo, hi) == SubSeq(a, lo + 1, Min(hi, Len(a)))

(***************************************************************************)
(* RLNN.set_params: walks the tensors in declaration order; tensor i takes *)
(* the slice params[cpt:cpt+tmp].  A slice that is too short cannot be     *)
(* viewed as the tensor's size and raises, the tensors before it having    *)
(* been overwritten already.  Nothing looks at what is left of params.     *)
(***************************************************************************)
CptAfter_Stuck(cpt, tmp) == cpt

CptAfter(cpt, tmp) == cpt + tmp

RECURSIVE set_params_loop(_, _, _, _)
set_params_loop(nw, ps, i, cpt) ==
    IF i > Len(nw)
    THEN [raised |-> FALSE, net |-> nw]
    ELSE LET tmp == Product(nw[i].size)
             sl == Slice(ps, cpt, cpt + tmp)
         IN  IF Len(sl) # tmp
             THEN [raised |-> TRUE, net |-> nw]
             ELSE set_params_loop([nw EXCEPT ![i].data = View(sl, nw[i].size)],
                                  ps, i + 1, CptAfter(cpt, tmp))

set_params(nw, ps) == set_params_loop(nw, ps, 1, 0)

(***************************************************************************)
(* RLNN.get_params: the tensors flattened and stacked in declaration order *)
(***************************************************************************)
get_params_Reversed(nw) ==
    ConcatAll([i \in 1..Len(nw) |-> Flatten(nw[Len(nw) + 1 - i])])

get_params(nw) == ConcatAll([i \in 1..Len(nw) |-> Flatten(nw[i])])

\* RLNN.get_size
get_size(nw) == Len(get_params(nw))

(***************************************************************************)
(* The networks and vectors the parameter operations are tried on.         *)
(***************************************************************************)
\* nn.Linear(in, out): weight of size (out, in), then bias of size (out)
Linear(in, out) == << <<out, in>>, <<out>> >>
\* nn.LayerNorm(w): weight and bias, both of size (w)
LayerNorm(w) == << <<w>>, <<w>> >>

Architectures ==
    { Linear(i, o) : i \in 1..MaxDim, o \in 1..MaxDim }
    \cup { Linear(i, o) \o LayerNorm(o) : i \in 1..MaxDim, o \in 1..MaxDim }
    \cup { Linear(i, h) \o Linear(h, 1) : i \in 1..MaxDim, h \in 1..MaxDim }

RECURSIVE SumSizes(_)
SumSizes(sizes) ==
    IF sizes = <<>> THEN 0 ELSE Product(Head(sizes)) + SumSizes(Tail(sizes))

\* a vector of length len whose k-th element is (off + k) mod NumFill
Ramp(len, off) == [k \in 1..len |-> (off + k) % NumFill]

\* the network of the given sizes whose elements, in storage order, are Ramp
Filled(sizes, off) ==
    [i \in 1..Len(sizes) |->
        LET before == SumSizes(SubSeq(sizes, 1, i - 1))
            count == Product(sizes[i])
        IN  [size |-> sizes[i],
             data |-> View([k \in 1..count |-> (off + before + k) % NumFill],
                           sizes[i])]]

InitParams ==
    /\ \E sizes \in Architectures, off \in 0..(NumFill - 1) :
          net = Filled(sizes, off)
    /\ \E len \in 0..(get_size(net) + MaxExtra), off \in 0..(NumFill - 1) :
          params = Ramp(len, off)
    /\ net_before = net
    /\ flat_before = get_params(net)
    /\ p_op = "none"
    /\ p_raised = FALSE
    /\ p_out = <<>>

\* net.set_params(params)
SetParams ==
    /\ p_op = "none"
    /\ LET r == set_params(net, params)
       IN  /\ net' = r.net
           /\ p_raised' = r.raised
    /\ p_op' = "set_params"
    /\ net_before' = net
    /\ flat_before' = get_params(net)
    /\ p_out' = <<>>
    /\ UNCHANGED <<params, dvars>>

\* net.get_params()
GetParams ==
    /\ p_op = "none"
    /\ p_out' = get_params(net)
    /\ p_op' = "get_params"
    /\ p_raised' = FALSE
    /\ net_before' = net
    /\ flat_before' = get_params(net)
    /\ UNCHANGED <<net, params, dvars>>

\* net.set_params(net.get_params())
RoundTrip ==
    /\ p_op = "none"
    /\ LET r == set_params(net, get_params(net))
       IN  /\ net' = r.net
           /\ p_raised' = r.raised
           /\ p_out' = get_params(r.net)
    /\ p_op' = "round_trip"
    /\ net_before' = net
    /\ flat_before' = get_params(net)
    /\ UNCHANGED <<params, dvars>>

NextParams ==
    \/ SetParams
    \/ GetParams
    \/ RoundTrip

(***************************************************************************)
(* Bounds of the driver model.                                             *)
(***************************************************************************)
MaxGen == 2         \* n_gen ranges over 0..MaxGen
MaxPop == 2         \* pop_size ranges over 1..MaxPop
MaxEpisodes == 1    \* n_episodes ranges over 1..MaxEpisodes, n_test over 0..MaxEpisodes
MaxEpLen == 2       \* the environment ends an episode after at most this many steps
MaxStart == 2       \* start_steps ranges over 0..MaxStart
MaxMem == 2         \* mem_size of whole-program runs
MaxCallEpisodes == 2 \* n_episodes of a single evaluate call ranges over 0..MaxCallEpisodes

BatchSize == 1024   \* batch_size of the actor gradient

Modes == {"train", "test", "play", ""}
\* The stub environment of the end-to-end scenario pays 1 for every step.
StubRewards == {1}

RECURSIVE Sum(_)
Sum(s) == IF s = <<>> THEN 0 ELSE Head(s) + Sum(Tail(s))

\* Numbers that need not be whole are kept as fractions; 0/0 is nan.
Rat(x) == [num |-> x, den |-> 1]
RatEq(a, b) == a.den # 0 /\ b.den # 0 /\ a.num * b.den = b.num * a.den
RatLeq(a, b) == a.den # 0 /\ b.den # 0 /\ a.num * b.den <= b.num * a.den

\* np.mean(scores); of no scores it is nan
Mean(s) == [num |-> Sum(s), den |-> Len(s)]

(***************************************************************************)
(* Replay memory (memory.py): a ring of capacity mem_size.                 *)
(***************************************************************************)
MemoryAdd(mem, tr, cap) ==
    IF Len(mem) < cap THEN Append(mem, tr) ELSE Append(Tail(mem), tr)

\* memory.sample(batch_size) draws with replacement; it needs one transition
MemoryCanSample(mem) == Len(mem) > 0

(***************************************************************************)
(* The environment (gym): reset() puts it at step 0; step() yields a       *)
(* reward and a done flag of its own choosing, done at the latest after    *)
(* MaxEpLen steps.  The observation is the step number.                    *)
(***************************************************************************)
EnvOutcomes(t) ==
    { o \in [reward : env_rewards, done : BOOLEAN] : (t + 1 >= MaxEpLen) => o.done }

(***************************************************************************)
(* evaluate(), lines 30-43: how policy(obs) draws an action.               *)
(*   "random"       env.action_space.sample()                              *)
(*   "actor"        the actor's output, clipped                            *)
(*   "actor+noise"  the actor's output plus noise.sample(), clipped        *)
(*   "raise"        noise is not None and has no sample(): AttributeError  *)
(* noise is "None", "False" (what test passes) or "process".               *)
(***************************************************************************)
policy(rnd, noise) ==
    IF ~rnd
    THEN IF noise # "None"
         THEN IF noise = "process" THEN "actor+noise" ELSE "raise"
         ELSE "actor"
    ELSE "random"

\* lines 63-64: if add_memory: memory.add(...)
Remember_Always(add_memory, mem, tr, cap) == MemoryAdd(mem, tr, cap)

Remember(add_memory, mem, tr, cap) ==
    IF add_memory THEN MemoryAdd(mem, tr, cap) ELSE mem

\* line 151: random = total_steps < args.start_steps
RandomPhase_Leq(total, start_steps) == total <= start_steps

RandomPhase(total, start_steps) == total < start_steps

\* lines 287-295: the routine a mode string selects
Dispatch_Lenient(mode) ==
    IF mode = "test" THEN "test" ELSE "train"

Dispatch(mode) ==
    IF mode = "train" THEN "train"
    ELSE IF mode = "test" THEN "test"
    ELSE "RuntimeError"

NoAct == [how |-> "none", at |-> 0, total |-> 0]
NoCall == [random |-> FALSE, noise |-> "None", add_memory |-> TRUE,
           n_episodes |-> 0, ret_pc |-> "none"]
NoRet == [f |-> Rat(0), steps |-> 0]
OldTransition == [obs |-> 0, n_obs |-> 1, action |-> "old", reward |-> 0, done |-> TRUE]

DefaultArgs ==
    [mode |-> "train", n_gen |-> 1, n_episodes |-> 1, pop_size |-> 1,
     start_steps |-> 0, n_test |-> 1, mem_size |-> 1]

\* The state of the process before __main__ dispatches.
Fresh ==
    /\ err = ""
    /\ env_t = 0
    /\ ev = NoCall
    /\ ep = 0
    /\ score = 0
    /\ scores = <<>>
    /\ steps = 0
    /\ ret = NoRet
    /\ random = FALSE
    /\ member = 0
    /\ batch_steps = 0
    /\ fitness = <<>>
    /\ es_log = <<>>
    /\ n = 0
    /\ total_steps = 0
    /\ df = <<>>
    /\ log_pkl = <<>>
    /\ saves = 0
    /\ critic_steps = 0
    /\ steps_rl_f = [steps_rl |-> 0, f |-> 0]
    /\ env_steps = 0
    /\ call_steps = 0
    /\ call_dones = 0
    /\ mem_adds = 0
    /\ noise_samples = 0
    /\ last_act = NoAct
    /\ ran = {}

NoNetwork ==
    /\ net = <<>>
    /\ params = <<>>
    /\ net_before = <<>>
    /\ flat_before = <<>>
    /\ p_op = "idle"
    /\ p_raised = FALSE
    /\ p_out = <<>>

(***************************************************************************)
(* evaluate(actor, n_episodes, random, noise, render, add_memory)          *)
(***************************************************************************)
\* lines 45-46, entered from a caller
Call(rnd, noise, add_memory, n_episodes, ret_pc) ==
    /\ ev' = [random |-> rnd, noise |-> noise, add_memory |-> add_memory,
              n_episodes |-> n_episodes, ret_pc |-> ret_pc]
    /\ ep' = 0
    /\ score' = 0
    /\ scores' = <<>>
    /\ steps' = 0
    /\ call_steps' = 0
    /\ call_dones' = 0
    /\ mem_adds' = 0
    /\ mem_entry' = memory
    /\ pc' = "ev_loop"

\* lines 48-52: the next episode begins
EvalEpisode ==
    /\ pc = "ev_loop"
    /\ ep < ev.n_episodes
    /\ score' = 0
    /\ env_t' = 0
    /\ pc' = "ev_step"
    /\ UNCHANGED <<pvars, world, err, memory, ev, ep, scores, steps, ret,
                   esvars, tvars, ovars>>

\* lines 54-75: one turn of the while loop; the turn that sees done also
\* resets the environment and appends the episode's score
EvalStep ==
    /\ pc = "ev_step"
    /\ LET how == policy(ev.random, ev.noise)
       IN  IF how = "raise"
           THEN /\ pc' = "error"
                /\ err' = "AttributeError"
                /\ UNCHANGED <<memory, env_t, ep, score, scores, steps,
                               env_steps, call_steps, call_dones, mem_adds,
                               noise_samples, last_act>>
           ELSE \E o \in EnvOutcomes(env_t) :
                LET tr == [obs |-> env_t, n_obs |-> env_t + 1, action |-> how,
                           reward |-> o.reward, done |-> o.done]
                IN  /\ score' = score + o.reward
                    /\ steps' = steps + 1
                    /\ memory' = Remember(ev.add_memory, memory, tr, args.mem_size)
                    /\ mem_adds' = IF ev.add_memory THEN mem_adds + 1 ELSE mem_adds
                    /\ env_t' = IF o.done THEN 0 ELSE env_t + 1
                    /\ scores' = IF o.done THEN Append(scores, score') ELSE scores
                    /\ ep' = IF o.done THEN ep + 1 ELSE ep
                    /\ pc' = IF o.done THEN "ev_loop" ELSE "ev_step"
                    /\ noise_samples' = IF how = "actor+noise"
                                        THEN noise_samples + 1 ELSE noise_samples
                    /\ env_steps' = env_steps + 1
                    /\ call_steps' = call_steps + 1
                    /\ call_dones' = IF o.done THEN call_dones + 1 ELSE call_dones
                    /\ last_act' = [how |-> how, at |-> env_steps, total |-> total_steps]
                    /\ err' = err
    /\ UNCHANGED <<pvars, world, ev, ret, esvars, tvars, mem_entry, ran>>

\* line 77
EvalReturn ==
    /\ pc = "ev_loop"
    /\ ep >= ev.n_episodes
    /\ ret' = [f |-> Mean(scores), steps |-> steps]
    /\ pc' = ev.ret_pc
    /\ UNCHANGED <<pvars, world, err, memory, env_t, ev, ep, score, scores, steps,
                   esvars, tvars, ovars>>

(***************************************************************************)
(* __main__, lines 287-295                                                 *)
(***************************************************************************)
Main ==
    /\ pc = "main"
    /\ LET to == Dispatch(args.mode)
       IN  IF to = "RuntimeError"
           THEN /\ pc' = "error"
                /\ err' = "RuntimeError"
                /\ ran' = ran
           ELSE /\ pc' = to
                /\ err' = err
                /\ ran' = ran \cup {to}
    /\ UNCHANGED <<pvars, world, memory, env_t, evars, esvars, tvars,
                   env_steps, call_steps, call_dones, mem_entry, mem_adds,
                   noise_samples, last_act>>

(***************************************************************************)
(* train(), lines 146-169                                                  *)
(***************************************************************************)
\* lines 149-153: the head of the loop, up to the call of train_es
TrainLoop ==
    /\ pc = "train"
    /\ IF n < args.n_gen
       THEN /\ random' = RandomPhase(total_steps, args.start_steps)
            /\ pc' = "train_es"
       ELSE /\ random' = random
            /\ pc' = "done"
    /\ UNCHANGED <<pvars, world, err, memory, env_t, evars, member, batch_steps,
                   fitness, es_log, tvars, ovars>>

\* lines 85-90: a fresh actor, es.ask()
TrainEsAsk ==
    /\ pc = "train_es"
    /\ batch_steps' = 0
    /\ fitness' = <<>>
    /\ member' = 1
    /\ es_log' = <<[op |-> "ask", arg |-> args.pop_size]>>
    /\ pc' = "es_member"
    /\ UNCHANGED <<pvars, world, err, memory, env_t, evars, random, tvars, ovars>>

\* lines 93-97: the next member is loaded and evaluated; after the last
\* member the loop is left
TrainEsMember ==
    /\ pc = "es_member"
    /\ IF member <= args.pop_size
       THEN /\ es_log' = Append(es_log, [op |-> "evaluate", arg |-> member])
            /\ Call(random, "None", TRUE, args.n_episodes, "es_collect")
            /\ UNCHANGED ret
       ELSE /\ pc' = "es_update"
            /\ UNCHANGED <<es_log, evars, call_steps, call_dones, mem_adds, mem_entry>>
    /\ UNCHANGED <<pvars, world, err, memory, env_t, random, member, batch_steps,
                   fitness, tvars, env_steps, noise_samples, last_act, ran>>

\* lines 98-99
TrainEsCollect ==
    /\ pc = "es_collect"
    /\ batch_steps' = batch_steps + ret.steps
    /\ fitness' = Append(fitness, ret.f)
    /\ member' = member + 1
    /\ pc' = "es_member"
    /\ UNCHANGED <<pvars, world, err, memory, env_t, evars, random, es_log,
                   tvars, ovars>>

\* train_rl, lines 114-138: what it returns, whatever it is given
train_rl(n_steps) == [steps_rl |-> 0, f |-> 0]

\* The rest of a generation, which nothing interleaves with.
\* train_es, lines 106-111: es.tell, the mean into the actor, the actor's
\* gradient, es.add, return.  The lookup of actor_grad raises where the
\* class has no such method; memory.sample raises on an empty memory.
\* train, lines 154-169: train_rl trains the critic for steps_ea steps; the
\* step count grows; agent.save; the score log is pickled; only then is the
\* generation's row appended to it.
TrainGenerationEnd ==
    /\ pc = "es_update"
    /\ LET told == es_log \o <<[op |-> "tell", arg |-> Len(fitness)],
                               [op |-> "set_params", arg |-> 0]>>
           steps_ea == batch_steps
           r == train_rl(steps_ea)
       IN  IF ~actor_grad_defined
           THEN /\ es_log' = told
                /\ pc' = "error"
                /\ err' = "AttributeError"
                /\ UNCHANGED tvars
           ELSE IF ~MemoryCanSample(memory)
           THEN /\ es_log' = Append(told, [op |-> "actor_grad", arg |-> BatchSize])
                /\ pc' = "error"
                /\ err' = "InsufficientData"
                /\ UNCHANGED tvars
           ELSE /\ es_log' = told \o <<[op |-> "actor_grad", arg |-> BatchSize],
                                       [op |-> "add", arg |-> 1]>>
                /\ critic_steps' = critic_steps + steps_ea
                /\ steps_rl_f' = r
                /\ total_steps' = total_steps + r.steps_rl + steps_ea
                /\ saves' = saves + 1
                /\ log_pkl' = df
                /\ df' = Append(df, [total_steps |-> total_steps',
                                     best_score |-> r.f])
                /\ n' = n + 1
                /\ pc' = "train"
                /\ err' = err
    /\ UNCHANGED <<pvars, world, memory, env_t, evars, random, member,
                   batch_steps, fitness, ovars>>

(***************************************************************************)
(* test(), lines 178-190                                                   *)
(***************************************************************************)
\* lines 178-185: load the actor, call evaluate with noise=False
Test ==
    /\ pc = "test"
    /\ IF ~actor_pkl
       THEN /\ pc' = "error"
            /\ err' = "FileNotFoundError"
            /\ UNCHANGED <<evars, call_steps, call_dones, mem_adds, mem_entry>>
       ELSE /\ Call(FALSE, "False", TRUE, args.n_test, "test_report")
            /\ UNCHANGED <<err, ret>>
    /\ UNCHANGED <<pvars, world, memory, env_t, esvars, tvars, env_steps,
                   noise_samples, last_act, ran>>

\* lines 187-190
TestReport ==
    /\ pc = "test_report"
    /\ pc' = "done"
    /\ UNCHANGED <<pvars, world, err, memory, env_t, evars, esvars, tvars, ovars>>

(***************************************************************************)
(* Specifications                                                          *)
(***************************************************************************)
\* models.py alone
InitP ==
    /\ InitParams
    /\ args = DefaultArgs
    /\ actor_grad_defined = FALSE
    /\ actor_pkl = FALSE
    /\ env_rewards = StubRewards
    /\ pc = "idle"
    /\ memory = <<>>
    /\ mem_entry = <<>>
    /\ Fresh

SpecParams == InitP /\ [][NextParams]_vars

\* one call of evaluate
InitEval ==
    /\ NoNetwork
    /\ \E m \in 1..(MaxCallEpisodes * MaxEpLen + 1) :
          args = [DefaultArgs EXCEPT !.mem_size = m]
    /\ actor_grad_defined = FALSE
    /\ actor_pkl = FALSE
    /\ env_rewards \in {StubRewards, {0, 1}}
    /\ memory \in {<<>>, <<OldTransition>>}
    /\ mem_entry = memory
    /\ Fresh
    /\ pc = "call"

EvalCall ==
    /\ pc = "call"
    /\ \E rnd \in BOOLEAN, noise \in {"None", "False", "process"},
          add_memory \in BOOLEAN, n_episodes \in 0..MaxCallEpisodes :
          Call(rnd, noise, add_memory, n_episodes, "returned")
    /\ UNCHANGED <<pvars, world, err, memory, env_t, ret, esvars, tvars,
                   env_steps, noise_samples, last_act, ran>>

NextEval ==
    \/ EvalCall
    \/ EvalEpisode
    \/ EvalStep
    \/ EvalReturn

SpecEval == InitEval /\ [][NextEval]_vars

\* the whole program; has_grad: the values actor_grad_defined may take
InitProgram(has_grad) ==
    /\ NoNetwork
    /\ \E mode \in Modes :
          \/ /\ mode = "train"
             /\ \E g \in 0..MaxGen, e \in 1..MaxEpisodes, p \in 1..MaxPop,
                   s \in 0..MaxStart :
                   args = [DefaultArgs EXCEPT !.mode = mode, !.n_gen = g,
                              !.n_episodes = e, !.pop_size = p,
                              !.start_steps = s, !.mem_size = MaxMem]
             /\ actor_grad_defined \in has_grad
             /\ actor_pkl = FALSE
          \/ /\ mode # "train"
             /\ \E t \in 0..MaxEpisodes :
                   args = [DefaultArgs EXCEPT !.mode = mode, !.n_test = t,
                              !.mem_size = MaxMem]
             /\ actor_grad_defined = FALSE
             /\ actor_pkl \in BOOLEAN
    /\ env_rewards = StubRewards
    /\ memory = <<>>
    /\ mem_entry = <<>>
    /\ Fresh
    /\ pc = "main"

Next ==
    \/ Main
    \/ TrainLoop
    \/ TrainEsAsk
    \/ TrainEsMember
    \/ TrainEsCollect
    \/ TrainGenerationEnd
    \/ Test
    \/ TestReport
    \/ EvalEpisode
    \/ EvalStep
    \/ EvalReturn

\* The methods of ActorERL (models.py): those of RLNN, and forward.
ActorMethods ==
    {"set_params", "train_actor", "get_params", "get_grads", "get_size",
     "load_model", "save_model", "forward"}

\* The repository as it is: ges.py line 108 calls a method the class lacks.
Init == InitProgram({"actor_grad" \in ActorMethods})

Spec == Init /\ [][Next]_vars

\* The same program, run also with an Actor class that does have a method
\* under the name actor_grad, so that the code after line 108 runs.
InitGrad == InitProgram(BOOLEAN)

SpecGrad == InitGrad /\ [][Next]_vars

(***************************************************************************)
(* Properties                                                              *)
(***************************************************************************)
InTrain == args.mode = "train"
InTest == args.mode = "test"
\* train is at the head of its loop with g generations behind it
GenerationsDone(g) == InTrain /\ pc = "train" /\ n = g

\* C1: when train has run its n_gen generations, total_steps is the number
\* of environment steps the population evaluations took (the gradient phase
\* adding none), and the run does get there: it does not end in an error.
C1_Claim ==
    InTrain =>
        /\ pc # "error"
        /\ (pc = "done" => n = args.n_gen /\ total_steps = env_steps)

Best(fs) ==
    CHOOSE b \in {fs[i] : i \in 1..Len(fs)} :
        \A i \in 1..Len(fs) : RatLeq(fs[i], b)

C4_Claim ==
    (InTest /\ actor_pkl) =>
        /\ pc # "error"
        /\ noise_samples = 0
        /\ last_act.how \in {"none", "actor"}
        /\ (pc = "done" => call_dones = args.n_test)

\* C5: a mode other than 'train' and 'test' ends the process in a fatal
\* error with no generation and no episode run; 'train' runs the train loop
\* and never test; 'test' runs test and never the train loop.
C5_Dispatch ==
    /\ (~InTrain /\ ~InTest) =>
          /\ pc \in {"main", "error"}
          /\ (pc = "error" => err = "RuntimeError")
          /\ ran = {} /\ ev = NoCall /\ env_steps = 0 /\ es_log = <<>> /\ n = 0
    /\ (InTrain /\ pc # "main") =>
          /\ ran = {"train"}
          /\ pc \notin {"test", "test_report"}
          /\ ev.ret_pc # "test_report"
    /\ (InTest /\ pc # "main") =>
          /\ ran = {"test"}
          /\ pc \notin {"train", "train_es", "es_member", "es_collect", "es_update"}
          /\ es_log = <<>> /\ n = 0
          /\ ev.ret_pc # "es_collect"

C5_Witness == ~InTrain /\ ~InTest /\ pc = "error" /\ err = "RuntimeError"

\* the k-th element (from 0) of a tensor in row-major order
Element(t, k) ==
    IF Len(t.size) = 1
    THEN t.data[k + 1]
    ELSE t.data[(k \div t.size[2]) + 1][(k % t.size[2]) + 1]

\* every tensor of nw holds, in declaration order, its contiguous slice of ps
HoldsSlices(nw, ps) ==
    \A i \in 1..Len(nw) :
        LET off == SumSizes([j \in 1..(i - 1) |-> nw[j].size])
        IN  \A k \in 0..(Product(nw[i].size) - 1) :
                Element(nw[i], k) = ps[off + k + 1]

SameSizes(a, b) ==
    /\ Len(a) = Len(b)
    /\ \A i \in 1..Len(a) : a[i].size = b[i].size

C7_RoundTrip ==
    p_op = "round_trip" =>
        /\ ~p_raised
        /\ net = net_before
        /\ p_out = flat_before

C7_Witness ==
    /\ p_op = "round_trip"
    /\ Len(net) = 4
    /\ get_size(net) >= 6
    /\ \E i, j \in 1..Len(p_out) : p_out[i] # p_out[j]

\* C8: in training, an action taken while the environment steps so far are
\* below start_steps is drawn at random, and one taken once they are at or
\* above start_steps is drawn from the actor.
C8_Claim ==
    (InTrain /\ last_act.how # "none") =>
        /\ (last_act.at < args.start_steps) => last_act.how = "random"
        /\ (last_act.at >= args.start_steps) => last_act.how = "actor"

\* C8, as amended: the choice is made once per generation, from total_steps
\* as it stands before the generation: the environment steps of the
\* generations completed so far.  Every action of the generation is random
\* if that is below start_steps and the actor's otherwise.
C8_PerGeneration ==
    InTrain =>
        /\ (last_act.how # "none") =>
              /\ last_act.how =
                    IF last_act.total < args.start_steps THEN "random" ELSE "actor"
              /\ last_act.total <= last_act.at
        /\ (pc \in {"ev_loop", "ev_step", "es_member", "es_collect", "es_update"}) =>
              /\ total_steps = IF df = <<>> THEN 0 ELSE df[Len(df)].total_steps
              /\ (last_act.how # "none" /\ last_act.at >= total_steps) =>
                    last_act.total = total_steps

C8_Witness ==
    /\ InTrain
    /\ last_act.how = "random"
    /\ args.start_steps > 0
    /\ last_act.at >= args.start_steps

\* what a whole call of train_es does, in order
EsLogExpected ==
    <<[op |-> "ask", arg |-> args.pop_size]>>
    \o [i \in 1..args.pop_size |-> [op |-> "evaluate", arg |-> i]]
    \o <<[op |-> "tell", arg |-> args.pop_size],
         [op |-> "set_params", arg |-> 0],
         [op |-> "actor_grad", arg |-> BatchSize],
         [op |-> "add", arg |-> 1]>>

\* C9: every call of train_es asks, evaluates each member in population
\* order, tells a fitness list as long as the population, loads the mean
\* into the actor, computes the actor's gradient from 1024 samples, adds it,
\* and returns normally the steps of the member evaluations.
C9_Claim ==
    /\ (pc = "error" /\ InTrain) => err # "AttributeError"
    /\ (InTrain /\ pc = "train" /\ n >= 1) =>
          /\ es_log = EsLogExpected
          /\ Len(fitness) = args.pop_size
          /\ total_steps = env_steps

\* the last cnt entries of a sequence
LastOf(q, cnt) == SubSeq(q, Len(q) - cnt + 1, Len(q))

\* C10: what evaluate returns as steps is the number of env.step calls it
\* made; each of its n_episodes episodes ended at the first done; with
\* add_memory one transition per step went into the replay memory, in step
\* order; without it the replay memory is as it was.
C10_EvaluateCounts ==
    /\ pc = "ev_step" => call_dones = ep /\ steps = call_steps
    /\ pc = "returned" =>
          /\ ret.steps = call_steps
          /\ call_dones = ev.n_episodes
          /\ Len(scores) = ev.n_episodes
          /\ ~ev.add_memory => memory = mem_entry /\ mem_adds = 0
          /\ ev.add_memory =>
                LET k == Min(ret.steps, args.mem_size)
                    added == LastOf(memory, k)
                IN  /\ mem_adds = ret.steps
                    /\ Len(memory) = Min(Len(mem_entry) + ret.steps, args.mem_size)
                    /\ SubSeq(memory, 1, Len(memory) - k)
                          = LastOf(mem_entry, Len(memory) - k)
                    /\ \A i \in 1..k :
                          added[i].action = policy(ev.random, ev.noise)
                    /\ \A i \in 1..(k - 1) :
                          added[i + 1].obs =
                              IF added[i].done THEN 0 ELSE added[i].n_obs
                    /\ (k > 0) => added[k].done
                    /\ (k > 0 /\ k = ret.steps) =>
                          /\ added[1].obs = 0
                          /\ Cardinality({i \in 1..k : added[i].done})
                                = ev.n_episodes

C10_Witness ==
    /\ pc = "returned"
    /\ ev.add_memory
    /\ ev.n_episodes = 2
    /\ ret.steps >= 3
    /\ Len(memory) = Len(mem_entry) + 3

====
